---- MODULE Spec2Model ----
(***************************************************************************)
(* AppointmentForm (src/src/components/AppointmentForm.tsx): the state of  *)
(* the form component, its event handlers, and the Date arithmetic the     *)
(* picker handlers rely on.                                                *)
(*                                                                         *)
(* A Date is its time value.  The time value t (milliseconds) is kept as   *)
(* the pair [day |-> Day(t), time |-> TimeWithinDay(t)], days counted from *)
(* 1 January of EpochYear, so that every number stays a small integer.     *)
(* Local time is taken at a fixed offset from UTC (no daylight saving).    *)
(***************************************************************************)
EXTENDS Integers, Sequences, FiniteSets, TLC

(***************************************************************************)
(* Bounds of the model.                                                    *)
(***************************************************************************)
\* number of records in the `doctors` prop
NumDoctors == 2

(***************************************************************************)
(* Date: the time-value functions behind getFullYear .. setMinutes.        *)
(***************************************************************************)
EpochYear == 2024
msPerSecond == 1000
msPerMinute == 60000
msPerHour == 3600000
msPerDay == 86400000

Years == EpochYear .. (EpochYear + 3)

IsLeapYear(y) == (y % 4 = 0 /\ y % 100 # 0) \/ (y % 400 = 0)

DaysInYear(y) == IF IsLeapYear(y) THEN 366 ELSE 365

RECURSIVE DayFromYear(_)
DayFromYear(y) == IF y <= EpochYear THEN 0 ELSE DayFromYear(y - 1) + DaysInYear(y - 1)

\* m is a month index 0..11, as getMonth returns it
DaysInMonth(y, m) ==
    IF m = 1 THEN (IF IsLeapYear(y) THEN 29 ELSE 28)
    ELSE IF m \in {3, 5, 8, 10} THEN 30
    ELSE 31

RECURSIVE MonthStart(_, _)
MonthStart(y, m) == IF m = 0 THEN 0 ELSE MonthStart(y, m - 1) + DaysInMonth(y, m - 1)

YearFromTime(t) ==
    CHOOSE y \in Years : DayFromYear(y) <= t.day /\ t.day < DayFromYear(y + 1)

DayWithinYear(t) == t.day - DayFromYear(YearFromTime(t))

MonthFromTime(t) ==
    CHOOSE m \in 0 .. 11 :
        /\ MonthStart(YearFromTime(t), m) <= DayWithinYear(t)
        /\ DayWithinYear(t) < MonthStart(YearFromTime(t), m) + DaysInMonth(YearFromTime(t), m)

DateFromTime(t) == DayWithinYear(t) - MonthStart(YearFromTime(t), MonthFromTime(t)) + 1

HourFromTime(t) == t.time \div msPerHour

MinFromTime(t) == (t.time \div msPerMinute) % 60

SecFromTime(t) == (t.time \div msPerSecond) % 60

msFromTime(t) == t.time % msPerSecond

MakeTime(hour, min, sec, ms) ==
    hour * msPerHour + min * msPerMinute + sec * msPerSecond + ms

\* month may lie outside 0..11 and date outside the month: both carry over
MakeDay(year, month, date) ==
    LET ym == year + (month \div 12)
        mn == month % 12
    IN  DayFromYear(ym) + MonthStart(ym, mn) + date - 1

MakeDate(day, time) ==
    [day |-> day + (time \div msPerDay), time |-> time % msPerDay]

\* Date.prototype.setFullYear(year): month and day of month are kept as arguments
setFullYear(t, year) ==
    MakeDate(MakeDay(year, MonthFromTime(t), DateFromTime(t)), t.time)

\* Date.prototype.setMonth(month)
setMonth(t, month) ==
    MakeDate(MakeDay(YearFromTime(t), month, DateFromTime(t)), t.time)

\* Date.prototype.setDate(date)
setDate(t, date) ==
    MakeDate(MakeDay(YearFromTime(t), MonthFromTime(t), date), t.time)

\* Date.prototype.setHours(hour)
setHours(t, hour) ==
    MakeDate(t.day, MakeTime(hour, MinFromTime(t), SecFromTime(t), msFromTime(t)))

\* Date.prototype.setMinutes(min)
setMinutes(t, min) ==
    MakeDate(t.day, MakeTime(HourFromTime(t), min, SecFromTime(t), msFromTime(t)))

\* a < b on two Dates: their time values compared
DateLess(a, b) == a.day < b.day \/ (a.day = b.day /\ a.time < b.time)

\* the Date of a local calendar date and time of day
At(year, month, date, hour, min, sec, ms) ==
    MakeDate(MakeDay(year, month, date), MakeTime(hour, min, sec, ms))

(***************************************************************************)
(* Inputs: the props of the component and the values its widgets deliver.  *)
(***************************************************************************)
\* ids of the `doctors` prop
DoctorIds == {"d" \o ToString(i) : i \in 1 .. NumDoctors}

\* values of the doctor Picker: the "Selecione um medico" item, then one item per doctor
PickerItemValues == {""} \cup DoctorIds

\* texts typed into the notes Input
NotesTexts == {"", "retorno"}

\* Dates a DateTimePicker hands to onChange (a full Date in either mode), and
\* the readings of the clock
PickerDates ==
    { At(2024, 0, 31, 10, 15, 0, 0),
      At(2024, 1, 15, 23, 45, 30, 500),
      At(2025, 1, 10, 10, 15, 0, 0) }

ClockReadings == PickerDates

\* onChange with no selectedDate (the picker was dismissed)
Undefined == [day |-> -1, time |-> -1]

\* the optional initialValues prop
NoInitialValues == [doctorId |-> "", date |-> Undefined, notes |-> ""]

InitialDates == { At(2024, 1, 15, 23, 45, 30, 500) }

InitialValuesProp ==
    {NoInitialValues} \cup
    [doctorId : PickerItemValues, date : InitialDates, notes : NotesTexts]

(***************************************************************************)
(* State.                                                                  *)
(***************************************************************************)
VARIABLES
    doctorId,        \* useState, line 36
    date,            \* useState, line 37
    notes,           \* useState, line 38
    showDatePicker,  \* useState, line 39
    showTimePicker,  \* useState, line 40
    errors,          \* useState, line 41: field name -> message
    isLoading,       \* prop, set by the caller
    platform,        \* Platform.OS
    now,             \* the clock: what new Date() returns
    onSubmitCalls,   \* the records the latest step handed to onSubmit
    pressed,         \* the latest step was a press on the submit Button
    passes,          \* clock readings of the validation passes run since the draft
                     \* was last touched by a setter or picker handler (latest two)
    errorsBefore     \* the error mapping the latest validation pass replaced

vars == << doctorId, date, notes, showDatePicker, showTimePicker, errors, isLoading,
           platform, now, onSubmitCalls, pressed, passes, errorsBefore >>

NoErrors == [k \in {} |-> ""]

ErrorMessage(k) ==
    IF k = "doctorId" THEN "Por favor, selecione um medico"
    ELSE "A data da consulta deve ser no futuro"

Keys(e) == DOMAIN e

Init ==
    \E iv \in InitialValuesProp :
        /\ now \in ClockReadings
        /\ platform \in {"ios", "android"}
        /\ isLoading \in BOOLEAN
        /\ doctorId = iv.doctorId
        /\ date = IF iv = NoInitialValues THEN now ELSE iv.date
        /\ notes = iv.notes
        /\ showDatePicker = FALSE
        /\ showTimePicker = FALSE
        /\ errors = NoErrors
        /\ onSubmitCalls = << >>
        /\ pressed = FALSE
        /\ passes = << >>
        /\ errorsBefore = NoErrors

(***************************************************************************)
(* Validation and submission.                                              *)
(***************************************************************************)
\* validateForm without the check of the doctor
validateForm_NoDoctorCheck(d, dt, n) ==
    [k \in (IF DateLess(dt, n) THEN {"date"} ELSE {}) |-> ErrorMessage(k)]

\* validateForm with the date compared by <= in place of <
validateForm_NotAfter(d, dt, n) ==
    LET keys == (IF d = "" THEN {"doctorId"} ELSE {})
                \cup (IF ~DateLess(n, dt) THEN {"date"} ELSE {})
    IN  [k \in keys |-> ErrorMessage(k)]

\* newErrors of validateForm for the draft (d, dt), the clock reading n
validateForm(d, dt, n) ==
    LET keys == (IF d = "" THEN {"doctorId"} ELSE {})
                \cup (IF DateLess(dt, n) THEN {"date"} ELSE {})
    IN  [k \in keys |-> ErrorMessage(k)]

\* the latest two entries of the passes made on the untouched draft
Latest2(s) == IF Len(s) > 2 THEN SubSeq(s, Len(s) - 1, Len(s)) ELSE s

\* handleSubmit calling onSubmit whatever validateForm returns
handleSubmit_Unchecked ==
    /\ errors' = validateForm(doctorId, date, now)
    /\ errorsBefore' = errors
    /\ passes' = Latest2(Append(passes, now))
    /\ onSubmitCalls' = << [doctorId |-> doctorId, date |-> date, notes |-> notes] >>

\* handleSubmit leaving the notes out of the record
handleSubmit_DropNotes ==
    LET newErrors == validateForm(doctorId, date, now)
    IN  /\ errors' = newErrors
        /\ errorsBefore' = errors
        /\ passes' = Latest2(Append(passes, now))
        /\ IF Keys(newErrors) = {}
             THEN onSubmitCalls' = << [doctorId |-> doctorId, date |-> date, notes |-> ""] >>
             ELSE onSubmitCalls' = << >>

\* handleSubmit with validateForm adding to the stored mapping ({...errors, ...newErrors})
handleSubmit_MergeErrors ==
    LET found == validateForm(doctorId, date, now)
        newErrors == [k \in Keys(errors) \cup Keys(found) |-> ErrorMessage(k)]
    IN  /\ errors' = newErrors
        /\ errorsBefore' = errors
        /\ passes' = Latest2(Append(passes, now))
        /\ IF Keys(newErrors) = {}
             THEN onSubmitCalls' = << [doctorId |-> doctorId, date |-> date, notes |-> notes] >>
             ELSE onSubmitCalls' = << >>

handleSubmit ==
    LET newErrors == validateForm(doctorId, date, now)
    IN  /\ errors' = newErrors
        /\ errorsBefore' = errors
        /\ passes' = Latest2(Append(passes, now))
        /\ IF Keys(newErrors) = {}
             THEN onSubmitCalls' = << [doctorId |-> doctorId, date |-> date, notes |-> notes] >>
             ELSE onSubmitCalls' = << >>

\* the submit Button without disabled={isLoading}
PressSubmit_IgnoreDisabled ==
    /\ pressed' = TRUE
    /\ handleSubmit
    /\ UNCHANGED << doctorId, date, notes, showDatePicker, showTimePicker, isLoading,
                    platform, now >>

\* a press on the submit Button: a disabled Button does not call onPress
PressSubmit ==
    /\ pressed' = TRUE
    /\ IF isLoading
         THEN /\ onSubmitCalls' = << >>
              /\ UNCHANGED << errors, errorsBefore, passes >>
         ELSE handleSubmit
    /\ UNCHANGED << doctorId, date, notes, showDatePicker, showTimePicker, isLoading,
                    platform, now >>

(***************************************************************************)
(* Setters and picker handlers.                                            *)
(***************************************************************************)
setDoctorId(itemValue) ==
    /\ doctorId' = itemValue
    /\ pressed' = FALSE
    /\ onSubmitCalls' = << >>
    /\ passes' = << >>
    /\ UNCHANGED << date, notes, showDatePicker, showTimePicker, errors, isLoading,
                    platform, now, errorsBefore >>

setNotes(text) ==
    /\ notes' = text
    /\ pressed' = FALSE
    /\ onSubmitCalls' = << >>
    /\ passes' = << >>
    /\ UNCHANGED << doctorId, date, showDatePicker, showTimePicker, errors, isLoading,
                    platform, now, errorsBefore >>

PressDateButton ==
    /\ showDatePicker' = TRUE
    /\ pressed' = FALSE
    /\ onSubmitCalls' = << >>
    /\ UNCHANGED << doctorId, date, notes, showTimePicker, errors, isLoading, platform,
                    now, passes, errorsBefore >>

PressTimeButton ==
    /\ showTimePicker' = TRUE
    /\ pressed' = FALSE
    /\ onSubmitCalls' = << >>
    /\ UNCHANGED << doctorId, date, notes, showDatePicker, errors, isLoading, platform,
                    now, passes, errorsBefore >>

\* onDateChange storing the picker's Date as it comes (setDate(selectedDate))
mergeDatePart_Whole(base, selectedDate) == selectedDate

\* lines 72-76: year, month and day of selectedDate written into a copy of date
mergeDatePart(base, selectedDate) ==
    setDate(setMonth(setFullYear(base, YearFromTime(selectedDate)),
                     MonthFromTime(selectedDate)),
            DateFromTime(selectedDate))

\* lines 83-86: hours and minutes of selectedTime written into a copy of date
mergeTimePart(base, selectedTime) ==
    setMinutes(setHours(base, HourFromTime(selectedTime)), MinFromTime(selectedTime))

\* the date picker offers no day before minimumDate
onDateChange(selectedDate) ==
    /\ showDatePicker
    /\ selectedDate # Undefined => selectedDate.day >= now.day
    /\ showDatePicker' = (platform = "ios")
    /\ date' = IF selectedDate # Undefined THEN mergeDatePart(date, selectedDate) ELSE date
    /\ pressed' = FALSE
    /\ onSubmitCalls' = << >>
    /\ passes' = << >>
    /\ UNCHANGED << doctorId, notes, showTimePicker, errors, isLoading, platform, now,
                    errorsBefore >>

onTimeChange(selectedTime) ==
    /\ showTimePicker
    /\ showTimePicker' = (platform = "ios")
    /\ date' = IF selectedTime # Undefined THEN mergeTimePart(date, selectedTime) ELSE date
    /\ pressed' = FALSE
    /\ onSubmitCalls' = << >>
    /\ passes' = << >>
    /\ UNCHANGED << doctorId, notes, showDatePicker, errors, isLoading, platform, now,
                    errorsBefore >>

(***************************************************************************)
(* Outside the component: the caller's isLoading prop and the clock.       *)
(***************************************************************************)
SetLoading(b) ==
    /\ isLoading # b
    /\ isLoading' = b
    /\ pressed' = FALSE
    /\ onSubmitCalls' = << >>
    /\ UNCHANGED << doctorId, date, notes, showDatePicker, showTimePicker, errors,
                    platform, now, passes, errorsBefore >>

ClockAdvance(n) ==
    /\ DateLess(now, n)
    /\ now' = n
    /\ pressed' = FALSE
    /\ onSubmitCalls' = << >>
    /\ UNCHANGED << doctorId, date, notes, showDatePicker, showTimePicker, errors,
                    isLoading, platform, passes, errorsBefore >>

Next ==
    \/ \E v \in PickerItemValues : setDoctorId(v)
    \/ \E t \in NotesTexts : setNotes(t)
    \/ PressDateButton
    \/ PressTimeButton
    \/ \E s \in PickerDates \cup {Undefined} : onDateChange(s)
    \/ \E s \in PickerDates \cup {Undefined} : onTimeChange(s)
    \/ PressSubmit
    \/ \E b \in BOOLEAN : SetLoading(b)
    \/ \E n \in ClockReadings : ClockAdvance(n)

Spec == Init /\ [][Next]_vars

(***************************************************************************)
(* Properties.                                                             *)
(***************************************************************************)
\* the latest step ran handleSubmit (a press leaves isLoading as it was)
ValidationRan == pressed /\ ~isLoading

Draft == [doctorId |-> doctorId, date |-> date, notes |-> notes]

\* C1: onSubmit is invoked only by a press on submit whose own validation pass
\* left the error mapping empty; no other step invokes it.
C1_OnlyValidSubmitCalls ==
    onSubmitCalls # << >> => (ValidationRan /\ Keys(errors) = {})

\* a submit that went through after an earlier pass had found errors
C1_Witness ==
    /\ ValidationRan
    /\ Len(onSubmitCalls) = 1
    /\ Keys(errorsBefore) # {}

\* C2: the date of every record handed to onSubmit is strictly later than the
\* clock reading of the validation pass of that submit.
C2_SubmittedDateStrictlyFuture ==
    \A i \in 1 .. Len(onSubmitCalls) : DateLess(now, onSubmitCalls[i].date)

\* C3: with a doctor selected and a date strictly after the clock reading, a
\* press on the enabled submit leaves the error mapping empty and invokes
\* onSubmit exactly once, with the draft's doctorId, date and notes.
C3_ValidDraftSubmitted ==
    (ValidationRan /\ doctorId # "" /\ DateLess(now, date))
        => (errors = NoErrors /\ onSubmitCalls = << Draft >>)

C3_Witness ==
    /\ ValidationRan
    /\ doctorId # ""
    /\ notes # ""
    /\ DateLess(now, date)
    /\ onSubmitCalls = << Draft >>

\* C4: a validation pass on a draft whose date is at or before the clock
\* reading (equal included) writes an error under the key "date".
C4_NotFutureDateReported ==
    (ValidationRan /\ ~DateLess(now, date)) => "date" \in Keys(errors)

\* C5 as stated: with an empty doctorId, a press on submit writes an error
\* under "doctorId" and does not invoke onSubmit.
C5_EmptyDoctorAnyPress ==
    (pressed /\ doctorId = "") => ("doctorId" \in Keys(errors) /\ onSubmitCalls = << >>)

\* C5 amended: with an empty doctorId, a press on the enabled submit (isLoading
\* false) writes an error under "doctorId" and does not invoke onSubmit.
C5_EmptyDoctorRejected ==
    (ValidationRan /\ doctorId = "")
        => ("doctorId" \in Keys(errors) /\ onSubmitCalls = << >>)

\* the doctor is the only thing wrong with the draft
C5_Witness ==
    /\ ValidationRan
    /\ doctorId = ""
    /\ DateLess(now, date)
    /\ Keys(errors) = {"doctorId"}
    /\ onSubmitCalls = << >>

\* C6: while isLoading is true a press on submit is a no-op: onSubmit is not
\* invoked and neither the draft nor the error mapping changes.
C6_LoadingDisablesSubmit ==
    [][(pressed' /\ isLoading)
          => (onSubmitCalls' = << >> /\ UNCHANGED << doctorId, date, notes, errors >>)]_vars

\* a press while loading on a draft that would have been forwarded
C6_Witness ==
    /\ pressed
    /\ isLoading
    /\ doctorId # ""
    /\ DateLess(now, date)
    /\ errors = NoErrors
    /\ onSubmitCalls = << >>

\* C7: the date picker handler leaves hour, minute, second and millisecond of
\* the draft date as they were; the time picker handler leaves its year,
\* month and day of month as they were.  (A step that changes the time of
\* day is no onDateChange step; one that changes the calendar date is no
\* onTimeChange step.)
C7_PickersKeepOtherPart ==
    [][/\ \/ date' = date
          \/ /\ HourFromTime(date') = HourFromTime(date)
             /\ MinFromTime(date') = MinFromTime(date)
             /\ SecFromTime(date') = SecFromTime(date)
             /\ msFromTime(date') = msFromTime(date)
          \/ ~ \E s \in PickerDates \cup {Undefined} : onDateChange(s)
       /\ \/ date' = date
          \/ /\ YearFromTime(date') = YearFromTime(date)
             /\ MonthFromTime(date') = MonthFromTime(date)
             /\ DateFromTime(date') = DateFromTime(date)
          \/ ~ \E s \in PickerDates \cup {Undefined} : onTimeChange(s)]_vars

\* seconds and milliseconds of the initial date, a day only the date picker
\* brings, an hour and minute only the time picker brings: both handlers ran
C7_Witness == date = At(2025, 1, 10, 10, 15, 30, 500)

\* C8: after the date picker handler ran with result s the draft's year, month
\* and day of month are those of s; after the time picker handler ran with
\* result s the draft's hour and minute are those of s.
C8_PickersTakeTheirPart ==
    [][/\ \A s \in PickerDates :
            onDateChange(s) =>
                /\ YearFromTime(date') = YearFromTime(s)
                /\ MonthFromTime(date') = MonthFromTime(s)
                /\ DateFromTime(date') = DateFromTime(s)
       /\ \A s \in PickerDates :
            onTimeChange(s) =>
                /\ HourFromTime(date') = HourFromTime(s)
                /\ MinFromTime(date') = MinFromTime(s)]_vars

\* C9 as stated: a validation pass that follows another on an untouched draft
\* leaves the error mapping as it was, the clock free to advance in between
\* (stated for draft dates that equal neither clock reading, where < and <=
\* agree).
C9_RepeatedPassSameErrors ==
    [][(/\ pressed'
        /\ ~isLoading
        /\ passes # << >>
        /\ date # now
        /\ date \notin {passes[i] : i \in 1 .. Len(passes)})
          => errors' = errors]_vars

\* C9 amended: a validation pass that follows another on an untouched draft
\* leaves the error mapping as it was, provided the draft date is before the
\* clock reading at both passes or at neither.
C9_RepeatedPassSameSide ==
    [][(/\ pressed'
        /\ ~isLoading
        /\ passes # << >>
        /\ DateLess(date, passes[Len(passes)]) <=> DateLess(date, now))
          => errors' = errors]_vars

\* two passes on the untouched draft, the clock advanced in between, same errors
C9_Witness ==
    /\ ValidationRan
    /\ Len(passes) = 2
    /\ DateLess(passes[1], passes[2])
    /\ errors = errorsBefore
    /\ Keys(errors) = {"doctorId"}

====
